---- MODULE Spec2Model ----
(***************************************************************************)
(* Model of pre_commit_hooks/check_puppetfile_dependencies.py: the         *)
(* Puppetfile parser, the Forge fetch fan-out, the version-requirement     *)
(* evaluator and the report/exit logic of main().                          *)
(*                                                                         *)
(* Strings the code inspects character by character (tags, version        *)
(* requirements, dependency names, git URLs) are sequences of one-         *)
(* character strings, so that the regular expressions and the semver       *)
(* grammar are computed, not assumed.                                      *)
(***************************************************************************)
EXTENDS Integers, Sequences, FiniteSets, TLC

(***************************************************************************)
(* Characters                                                              *)
(***************************************************************************)
DigitChars == {"0", "1", "2", "3", "4", "5", "6", "7", "8", "9"}

LetterChars == {"a", "b", "c", "e", "i", "n", "o", "r", "s", "t", "v", "x", "V"}

\* [<>=] of the clause regex
OperatorChars == {"<", ">", "="}

\* \s of the clause regex
SpaceChars == {" "}

\* [\d.] of the clause regex
VersionChars == DigitChars \cup {"."}

\* [0-9a-zA-Z-] of the semver grammar
IdentChars == DigitChars \cup LetterChars \cup {"-"}

DigitVal(c) ==
    CASE c = "0" -> 0 [] c = "1" -> 1 [] c = "2" -> 2 [] c = "3" -> 3
      [] c = "4" -> 4 [] c = "5" -> 5 [] c = "6" -> 6 [] c = "7" -> 7
      [] c = "8" -> 8 [] c = "9" -> 9

\* code point of a character, for Python's str comparison
Ord(c) ==
    CASE c \in DigitChars -> 48 + DigitVal(c)
      [] c = "-" -> 45 [] c = "." -> 46 [] c = "+" -> 43
      [] c = "V" -> 86
      [] c = "a" -> 97 [] c = "b" -> 98 [] c = "c" -> 99 [] c = "e" -> 101
      [] c = "i" -> 105 [] c = "n" -> 110 [] c = "o" -> 111 [] c = "r" -> 114
      [] c = "s" -> 115 [] c = "t" -> 116 [] c = "v" -> 118 [] c = "x" -> 120
      [] OTHER -> 0

(***************************************************************************)
(* String helpers                                                          *)
(***************************************************************************)
Drop(s, n) == IF n >= Len(s) THEN <<>> ELSE SubSeq(s, n + 1, Len(s))

Take(s, n) == IF n >= Len(s) THEN s ELSE SubSeq(s, 1, n)

AllIn(s, S) == \A i \in 1..Len(s) : s[i] \in S

\* index of the first occurrence of character c in s, 0 when absent
IndexOf(s, c) ==
    IF \E i \in 1..Len(s) : s[i] = c
    THEN CHOOSE i \in 1..Len(s) : s[i] = c /\ \A j \in 1..(i - 1) : s[j] # c
    ELSE 0

\* str.split(c)
RECURSIVE Split(_, _)
Split(s, c) ==
    LET i == IndexOf(s, c)
    IN  IF i = 0 THEN <<s>>
        ELSE <<Take(s, i - 1)>> \o Split(Drop(s, i), c)

\* str.startswith(p)
StartsWith(s, p) == Len(s) >= Len(p) /\ SubSeq(s, 1, Len(p)) = p

\* int(text) of a string of digits
RECURSIVE ToInt(_)
ToInt(s) ==
    IF s = <<>> THEN 0
    ELSE 10 * ToInt(Take(s, Len(s) - 1)) + DigitVal(s[Len(s)])

Cmp(a, b) == IF a < b THEN -1 ELSE IF a > b THEN 1 ELSE 0

\* cmp(a, b) of two Python strings: lexicographic by code point
RECURSIVE StrCmp(_, _)
StrCmp(a, b) ==
    IF a = <<>> /\ b = <<>> THEN 0
    ELSE IF a = <<>> THEN -1
    ELSE IF b = <<>> THEN 1
    ELSE IF Ord(a[1]) # Ord(b[1]) THEN Cmp(Ord(a[1]), Ord(b[1]))
    ELSE StrCmp(Tail(a), Tail(b))

\* str.replace(old, new) for single characters
ReplaceChar(s, old, new) == [i \in 1..Len(s) |-> IF s[i] = old THEN new ELSE s[i]]

(***************************************************************************)
(* The semver library as the program calls it                              *)
(***************************************************************************)
IsNumericId(s) == s # <<>> /\ AllIn(s, DigitChars) /\ (Len(s) = 1 \/ s[1] # "0")

\* 0|[1-9]\d*|\d*[a-zA-Z-][0-9a-zA-Z-]*
IsPrereleaseId(s) ==
    /\ s # <<>>
    /\ AllIn(s, IdentChars)
    /\ (AllIn(s, DigitChars) => IsNumericId(s))

\* [0-9a-zA-Z-]+
IsBuildId(s) == s # <<>> /\ AllIn(s, IdentChars)

\* the parts of a version string: core, prerelease and build (hasPre/hasBuild
\* tell an absent group from an empty one)
VersionParts(s) ==
    LET plus == IndexOf(s, "+")
        front == IF plus = 0 THEN s ELSE Take(s, plus - 1)
        dash == IndexOf(front, "-")
    IN  [core |-> IF dash = 0 THEN front ELSE Take(front, dash - 1),
         hasPre |-> dash # 0,
         pre |-> IF dash = 0 THEN <<>> ELSE Drop(front, dash),
         hasBuild |-> plus # 0,
         build |-> IF plus = 0 THEN <<>> ELSE Drop(s, plus)]

\* the three numeric identifiers, the prerelease and the build identifiers
\* all match the grammar
parts_are_valid(p, nums, pres, blds) ==
    /\ Len(nums) = 3
    /\ \A i \in 1..Len(nums) : IsNumericId(nums[i])
    /\ (p.hasPre => \A i \in 1..Len(pres) : IsPrereleaseId(pres[i]))
    /\ (p.hasBuild => \A i \in 1..Len(blds) : IsBuildId(blds[i]))

parts_valid(p) == parts_are_valid(p, Split(p.core, "."), Split(p.pre, "."), Split(p.build, "."))

\* semver.VersionInfo.parse succeeds (does not raise ValueError)
IsValidSemver(s) == parts_valid(VersionParts(s))

version_of_parts(p, nums) ==
    [major |-> ToInt(nums[1]), minor |-> ToInt(nums[2]), patch |-> ToInt(nums[3]),
     prerelease |-> p.pre, build |-> p.build]

parsed_parts(p) == version_of_parts(p, Split(p.core, "."))

VersionInfo_parse(s) == parsed_parts(VersionParts(s))

\* comparison of two prerelease identifiers: numeric ones as integers and
\* below alphanumeric ones, the others as strings
cmp_prerelease_tag(a, b) ==
    LET na == a # <<>> /\ AllIn(a, DigitChars)
        nb == b # <<>> /\ AllIn(b, DigitChars)
    IN  IF na /\ nb THEN Cmp(ToInt(a), ToInt(b))
        ELSE IF na THEN -1
        ELSE IF nb THEN 1
        ELSE StrCmp(a, b)

first_nonzero(c, rest) == IF c # 0 THEN c ELSE rest

RECURSIVE nat_cmp_parts(_, _, _)
nat_cmp_parts(pa, pb, i) ==
    IF i > Len(pa) \/ i > Len(pb) THEN 0
    ELSE first_nonzero(cmp_prerelease_tag(pa[i], pb[i]), nat_cmp_parts(pa, pb, i + 1))

nat_cmp(a, b) ==
    first_nonzero(nat_cmp_parts(Split(a, "."), Split(b, "."), 1), Cmp(Len(a), Len(b)))

core_cmp(v1, v2) ==
    IF v1.major # v2.major THEN Cmp(v1.major, v2.major)
    ELSE IF v1.minor # v2.minor THEN Cmp(v1.minor, v2.minor)
    ELSE Cmp(v1.patch, v2.patch)

\* the last lines of compare: the prerelease decides when the cores are equal
order_of(core, rccmp, rc1, rc2) ==
    IF core # 0 THEN core
    ELSE IF rccmp = 0 THEN 0
    ELSE IF rc1 = <<>> THEN 1
    ELSE IF rc2 = <<>> THEN -1
    ELSE rccmp

compare_parsed(v1, v2) ==
    order_of(core_cmp(v1, v2), nat_cmp(v1.prerelease, v2.prerelease),
             v1.prerelease, v2.prerelease)

\* semver.compare(ver1, ver2): [ok |-> FALSE] stands for ValueError
semver_compare(ver1, ver2) ==
    IF ~IsValidSemver(ver1) \/ ~IsValidSemver(ver2) THEN [ok |-> FALSE, val |-> 0]
    ELSE [ok |-> TRUE, val |-> compare_parsed(VersionInfo_parse(ver1), VersionInfo_parse(ver2))]

\* semver.match(version, match_expr). api is the major version of the
\* installed semver package (setup.py does not pin it): release 3 reads an
\* expression that starts with a digit as "==", release 2 raises ValueError.
match_kind(api, match_expr, prefix) ==
    IF prefix \in {<<">", "=">>, <<"<", "=">>, <<"=", "=">>, <<"!", "=">>} THEN "two"
    ELSE IF prefix # <<>> /\ prefix[1] \in {">", "<"} THEN "one"
    ELSE IF api >= 3 /\ match_expr # <<>> /\ match_expr[1] \in DigitChars THEN "bare"
    ELSE "ValueError"

possibilities(op) ==
    CASE op = <<">">> -> {1}
      [] op = <<"<">> -> {-1}
      [] op = <<"=", "=">> -> {0}
      [] op = <<"!", "=">> -> {-1, 1}
      [] op = <<">", "=">> -> {0, 1}
      [] op = <<"<", "=">> -> {-1, 0}

match_result(op, c) ==
    IF ~c.ok THEN [ok |-> FALSE, val |-> FALSE]
    ELSE [ok |-> TRUE, val |-> c.val \in possibilities(op)]

match_by_kind(kind, version, match_expr) ==
    CASE kind = "two" ->
           match_result(Take(match_expr, 2), semver_compare(version, Drop(match_expr, 2)))
      [] kind = "one" ->
           match_result(Take(match_expr, 1), semver_compare(version, Drop(match_expr, 1)))
      [] kind = "bare" ->
           match_result(<<"=", "=">>, semver_compare(version, match_expr))
      [] OTHER -> [ok |-> FALSE, val |-> FALSE]

semver_match(api, version, match_expr) ==
    match_by_kind(match_kind(api, match_expr, Take(match_expr, 2)), version, match_expr)

(***************************************************************************)
(* compare_versions                                                        *)
(***************************************************************************)
\* length of the longest prefix of s made of characters of S
RECURSIVE RunLen(_, _)
RunLen(s, S) == IF s # <<>> /\ s[1] \in S THEN 1 + RunLen(Tail(s), S) ELSE 0

\* re.findall(r'([<>=]+)\s*([\d.]+)', s): the (operator, version) pairs,
\* scanning left to right without overlap
RECURSIVE findall_clauses(_)
\* the match attempt at the head of s, given the lengths of the operator run,
\* of the white space after it and of the version run after that
clause_at(s, o, w, d) ==
    IF o > 0 /\ d > 0
    THEN <<[operator |-> Take(s, o), version |-> SubSeq(s, o + w + 1, o + w + d)]>>
         \o findall_clauses(Drop(s, o + w + d))
    ELSE findall_clauses(Tail(s))

after_spaces(s, o, w) == clause_at(s, o, w, RunLen(Drop(s, o + w), VersionChars))

after_operator(s, o) == after_spaces(s, o, RunLen(Drop(s, o), SpaceChars))

findall_clauses(s) ==
    IF s = <<>> THEN <<>> ELSE after_operator(s, RunLen(s, OperatorChars))

\* the if/elif chain of lines 143-162 on the outcome c of semver.compare
operator_holds(operator, c) ==
    CASE operator = <<">", "=">> -> c >= 0
      [] operator = <<">">> -> c > 0
      [] operator = <<"<", "=">> -> c <= 0
      [] operator = <<"<">> -> c < 0
      [] operator = <<"=">> -> c = 0

\* one pass of the body of the for loop: "fail" is return False (a clause that
\* does not hold, or ValueError), "next" goes on to the next clause; an
\* operator none of the branches names calls nothing and goes on
clause_outcome(operator, c) ==
    IF operator \notin {<<">", "=">>, <<">">>, <<"<", "=">>, <<"<">>, <<"=">>} THEN "next"
    ELSE IF ~c.ok THEN "fail"
    ELSE IF operator_holds(operator, c.val) THEN "next" ELSE "fail"

clause_step(puppet_dep_version, operator, version) ==
    clause_outcome(operator, semver_compare(puppet_dep_version, version))

RECURSIVE clauses_hold(_, _, _)
clauses_hold(puppet_dep_version, requirements, i) ==
    IF i > Len(requirements) THEN TRUE
    ELSE IF clause_step(puppet_dep_version, requirements[i].operator,
                        requirements[i].version) = "fail" THEN FALSE
    ELSE clauses_hold(puppet_dep_version, requirements, i + 1)

match_or_false(m) == IF m.ok THEN m.val ELSE FALSE

evaluate(api, puppet_dep_version, dep_version_requirement, requirements) ==
    IF requirements = <<>>
    THEN match_or_false(semver_match(api, puppet_dep_version, dep_version_requirement))
    ELSE clauses_hold(puppet_dep_version, requirements, 1)

compare_versions(api, puppet_dep_version, dep_version_requirement) ==
    evaluate(api, puppet_dep_version, dep_version_requirement,
             findall_clauses(dep_version_requirement))

(***************************************************************************)
(* Inputs: names, URLs, tags, requirements                                 *)
(***************************************************************************)
\* 'puppet-resource_tree' (lines 25 and 41) and the name the Forge knows it by
PUPPET_RESOURCE_TREE == <<"p", "u", "p", "p", "e", "t", "-", "r", "e", "s", "o", "u", "r", "c", "e", "_", "t", "r", "e", "e">>

JAKE_RESOURCE_TREE == <<"j", "a", "k", "e", "-", "r", "e", "s", "o", "u", "r", "c", "e", "_", "t", "r", "e", "e">>

\* the prefix fetch_module_data requires of a git URL
GITHUB_PREFIX == <<"h", "t", "t", "p", "s", ":", "/", "/", "g", "i", "t", "h", "u", "b", ".", "c", "o", "m", "/">>

NameA == PUPPET_RESOURCE_TREE

NameB == <<"x", "-", "b">>

NameC == <<"x", "-", "c">>

\* dependency names as the Forge metadata spells them
DepNameA == <<"p", "u", "p", "p", "e", "t", "/", "r", "e", "s", "o", "u", "r", "c", "e", "_", "t", "r", "e", "e">>

DepNameB == <<"x", "/", "b">>

DepNameC == <<"x", "/", "c">>

UrlGithub == <<"h", "t", "t", "p", "s", ":", "/", "/", "g", "i", "t", "h", "u", "b", ".", "c", "o", "m", "/", "x", "/", "m">>

\* a URL that starts like the trusted host's but is another host's
UrlLookalike == <<"h", "t", "t", "p", "s", ":", "/", "/", "g", "i", "t", "h", "u", "b", ".", "c", "o", "m", ".", "x", "/", "m">>

V_0_9_0 == <<"0", ".", "9", ".", "0">>

V_1_0_0 == <<"1", ".", "0", ".", "0">>

V_1_9_0 == <<"1", ".", "9", ".", "0">>

V_2_0_0 == <<"2", ".", "0", ".", "0">>

V_2_1_0 == <<"2", ".", "1", ".", "0">>

V_1_0_0_rc1 == <<"1", ".", "0", ".", "0", "-", "r", "c", "1">>

V_1_0_0_rc2 == <<"1", ".", "0", ".", "0", "-", "r", "c", "2">>

V_10_0_0 == <<"1", "0", ".", "0", ".", "0">>

Tag_v0_9_0 == <<"v", "0", ".", "9", ".", "0">>

Tag_vv1_0_0 == <<"v", "v", "1", ".", "0", ".", "0">>

Req_ge_1_0_0 == <<">", "=", "1", ".", "0", ".", "0">>

Req_ge_2_0_0 == <<">", "=", "2", ".", "0", ".", "0">>

Req_range_1_3 == <<">", "=", "1", ".", "0", ".", "0", " ", "<", "3", ".", "0", ".", "0">>

Req_range_sp == <<">", "=", " ", "1", ".", "0", ".", "0", " ", "<", " ", "2", ".", "0", ".", "0">>

Req_gt_1_0_0 == <<">", "1", ".", "0", ".", "0">>

Req_le_1_9_0 == <<"<", "=", "1", ".", "9", ".", "0">>

Req_lt_2_0_0 == <<"<", "2", ".", "0", ".", "0">>

Req_eq_1_0_0 == <<"=", "1", ".", "0", ".", "0">>

Req_ge_10_0_0 == <<">", "=", "1", "0", ".", "0", ".", "0">>

\* clauses whose version operand carries a prerelease
Req_eq_rc1 == <<"=", "1", ".", "0", ".", "0", "-", "r", "c", "1">>

Req_ge_rc1 == <<">", "=", "1", ".", "0", ".", "0", "-", "r", "c", "1">>

Req_lt_rc2 == <<"<", "1", ".", "0", ".", "0", "-", "r", "c", "2">>

\* malformed requirements
Req_not_a_version == <<"n", "o", "t", "-", "a", "-", "v", "e", "r", "s", "i", "o", "n">>

Req_eqeq_2_0_0 == <<"=", "=", "2", ".", "0", ".", "0">>

Req_eqgt_2_0_0 == <<"=", ">", "2", ".", "0", ".", "0">>

Req_ltgt_1_0_0 == <<"<", ">", "1", ".", "0", ".", "0">>

Req_ge_1_0 == <<">", "=", "1", ".", "0">>

Req_ge_x == <<">", "=", "x">>

Req_caret == <<"^", "1", ".", "0", ".", "0">>

Req_1_x == <<"1", ".", "x">>

Req_empty == <<>>

\* a bare version, which is a range expression of semver 3 only
Req_bare_1_0_0 == <<"1", ".", "0", ".", "0">>

(***************************************************************************)
(* Bounds and the inputs of a run                                          *)
(***************************************************************************)
\* longest Puppetfile, in lines
MaxLines == 2

\* worker processes of multiprocessing.Pool()
PoolSize == 2

\* the lines a Puppetfile is made of: the three groups of the regex of line
\* 75 for a line it matches, match = FALSE for any other line
NoLine == [match |-> FALSE, name |-> <<>>, git_url |-> <<>>, tag |-> <<>>]

ModLine(n, u, t) == [match |-> TRUE, name |-> n, git_url |-> u, tag |-> t]

LineChoices ==
    { ModLine(NameA, UrlGithub, V_1_0_0),
      ModLine(NameB, UrlGithub, Tag_v0_9_0),
      ModLine(NameB, UrlGithub, V_1_0_0),
      ModLine(NameC, UrlLookalike, V_1_0_0),
      ModLine(NameA, UrlGithub, Tag_vv1_0_0),
      NoLine }

RECURSIVE SeqsUpTo(_, _)
SeqsUpTo(S, n) ==
    IF n = 0 THEN {<<>>}
    ELSE LET shorter == SeqsUpTo(S, n - 1)
         IN  shorter \cup {Append(q, x) : q \in {r \in shorter : Len(r) = n - 1}, x \in S}

\* the Puppetfile: its lines, and how far open()/iteration gets: "ok" reads
\* every line, "missing" raises FileNotFoundError at open, "error" raises
\* another exception after `upto` lines (0: at open)
Puppetfiles ==
    { [status |-> "ok", lines |-> l, upto |-> Len(l)] : l \in SeqsUpTo(LineChoices, MaxLines) }
    \cup { [status |-> "missing", lines |-> <<>>, upto |-> 0] }
    \cup { [status |-> "error", lines |-> l, upto |-> Len(l) - 1] :
             l \in SeqsUpTo(LineChoices, MaxLines) \ {<<>>} }
    \cup { [status |-> "error", lines |-> <<>>, upto |-> 0] }

Dep(n, r) == [name |-> n, version_requirement |-> r]

\* metadata.dependencies of a release, as the Forge may answer
DependencyLists ==
    { <<>>,
      <<Dep(DepNameB, Req_ge_1_0_0), Dep(DepNameC, Req_ge_1_0_0)>>,
      <<Dep(DepNameB, Req_bare_1_0_0), Dep(DepNameA, Req_lt_2_0_0)>> }

\* current_release.version of the module endpoint
LatestVersions == {V_1_0_0, V_2_0_0}

(***************************************************************************)
(* State                                                                   *)
(***************************************************************************)
VARIABLES
    pc,                 \* where main() is: start, parse, fetch, compare, print, exit, done
    puppetfile,         \* the file on disk
    print_all,          \* args.print_all
    semver_api,         \* major version of the installed semver package
    puppetfile_modules, \* module_data of parse_r10k_puppetfile, in dict order
    invalid_tags,       \* invalid_tags of parse_r10k_puppetfile
    pool,               \* one slot per item handed to pool.map
    requests,           \* the GETs issued to the Forge
    overtaken,          \* some item completed before an item handed in earlier
    skipped,            \* "Skipping <module> due to fetch error." lines printed
    forge_modules,      \* results of get_current_release_and_metadata
    module_differences, \* differences of compare_modules
    diagnostics,        \* what print_differences computes per module
    has_errors,         \* return value of print_differences
    messages,           \* lines main's own process prints, in order
    exit_code,          \* sys.exit status, -1 while running
    eval                \* one call of compare_versions on its own

vars == <<pc, puppetfile, print_all, semver_api, puppetfile_modules,
          invalid_tags, pool, requests, overtaken, skipped, forge_modules,
          module_differences, diagnostics, has_errors, messages, exit_code, eval>>

NoEval == [pc |-> "off", version |-> <<>>, requirement |-> <<>>, result |-> FALSE]

Init ==
    /\ pc = "start"
    /\ puppetfile \in Puppetfiles
    /\ print_all \in BOOLEAN
    /\ semver_api \in {2, 3}
    /\ puppetfile_modules = <<>>
    /\ invalid_tags = <<>>
    /\ pool = <<>>
    /\ requests = {}
    /\ overtaken = FALSE
    /\ skipped = {}
    /\ forge_modules = <<>>
    /\ module_differences = <<>>
    /\ diagnostics = <<>>
    /\ has_errors = FALSE
    /\ messages = <<>>
    /\ exit_code = -1
    /\ eval = NoEval

(***************************************************************************)
(* parse_r10k_puppetfile                                                   *)
(***************************************************************************)
\* re.sub(r'^v', '', tag, flags=re.IGNORECASE)
strip_v(tag) == IF tag # <<>> /\ tag[1] \in {"v", "V"} THEN Tail(tag) ELSE tag

\* DictSet with the fault of keeping the first value of a key
DictSet_keep_first(d, entry) ==
    IF \E i \in 1..Len(d) : d[i].name = entry.name THEN d ELSE Append(d, entry)

\* d[name] = entry on a dict kept in insertion order: an existing key keeps
\* its place and takes the new value
DictSet(d, entry) ==
    IF \E i \in 1..Len(d) : d[i].name = entry.name
    THEN [i \in 1..Len(d) |-> IF d[i].name = entry.name THEN entry ELSE d[i]]
    ELSE Append(d, entry)

\* lines 80-84 on the stripped tag of a matched line
keep_or_reject(acc, line, tag) ==
    IF IsValidSemver(tag)
    THEN [acc EXCEPT !.module_data =
             DictSet(@, [name |-> line.name, tag |-> tag, git_url |-> line.git_url])]
    ELSE [acc EXCEPT !.invalid_tags = Append(@, [name |-> line.name, tag |-> tag])]

\* the body of the for loop on one line (lines 74-84)
parse_line(acc, line) ==
    IF ~line.match THEN acc ELSE keep_or_reject(acc, line, strip_v(line.tag))

RECURSIVE parse_lines(_, _, _)
parse_lines(lines, upto, acc) ==
    IF upto = 0 THEN acc
    ELSE parse_line(parse_lines(lines, upto - 1, acc), lines[upto])

\* what the except clauses (lines 85-88) and the report of invalid tags
\* (lines 90-93) print
parse_prints(status, invalid) ==
    (IF status = "missing" THEN <<"Error: Puppetfile not found">>
     ELSE IF status = "error" THEN <<"An error occurred">>
     ELSE <<>>)
    \o (IF invalid # <<>>
        THEN <<"The following modules have invalid semver tags and were skipped:">>
        ELSE <<>>)

parse_outcome(status, got) ==
    [module_data |-> got.module_data, invalid_tags |-> got.invalid_tags,
     printed |-> parse_prints(status, got.invalid_tags)]

parse_r10k_puppetfile(file) ==
    parse_outcome(file.status,
                  parse_lines(file.lines, file.upto,
                              [module_data |-> <<>>, invalid_tags |-> <<>>]))

(***************************************************************************)
(* fetch_module_data and the pool                                          *)
(***************************************************************************)
\* None, as a release or module document and as a worker's result
None == [ok |-> FALSE, tag |-> <<>>, current_version |-> <<>>, dependencies |-> <<>>,
         module_endpoint_version |-> <<>>]

NoResponse == [ok |-> FALSE, version |-> <<>>, dependencies |-> <<>>]

\* what GET /v3/releases/<slug> may answer: an error (None) or the release
\* document of that slug
ReleaseResponses(tag) ==
    {NoResponse} \cup {[ok |-> TRUE, version |-> tag, dependencies |-> d] : d \in DependencyLists}

\* what GET /v3/modules/<name> may answer
ModuleResponses ==
    {NoResponse} \cup {[ok |-> TRUE, version |-> v, dependencies |-> <<>>] : v \in LatestVersions}

\* is_trusted with the fault of leaving the "/" that ends the host out
is_trusted_without_slash(git_url) ==
    StartsWith(git_url, SubSeq(GITHUB_PREFIX, 1, Len(GITHUB_PREFIX) - 1))

\* the git URL is one fetch_module_data queries the Forge for (line 38)
is_trusted(git_url) == StartsWith(git_url, GITHUB_PREFIX)

\* the name the Forge is asked for (lines 25-26 and 41-42)
forge_name(module_name) ==
    IF module_name = PUPPET_RESOURCE_TREE THEN JAKE_RESOURCE_TREE ELSE module_name

release_slug(module_name, tag) == forge_name(module_name) \o <<"-">> \o tag

\* the two GETs one call of fetch_module_data issues
fetch_requests(entry) ==
    IF ~is_trusted(entry.git_url) THEN {}
    ELSE { [endpoint |-> "releases", key |-> release_slug(entry.name, entry.tag)],
           [endpoint |-> "modules", key |-> forge_name(entry.name)] }

\* fetch_module_data((module_name, data)) given the Forge's two answers:
\* the result of the pair it returns, and whether it printed "Skipping ..."
fetch_module_data(entry, forge_release_data, forge_module_data) ==
    IF ~is_trusted(entry.git_url) THEN [result |-> None, skip |-> FALSE]
    ELSE IF forge_release_data.ok /\ forge_module_data.ok
    THEN [result |-> [ok |-> TRUE,
                      tag |-> entry.tag,
                      current_version |-> forge_release_data.version,
                      dependencies |-> forge_release_data.dependencies,
                      module_endpoint_version |-> forge_module_data.version],
          skip |-> FALSE]
    ELSE [result |-> None, skip |-> TRUE]

\* a worker may take item i: it is still queued and a worker is free
can_start(i) ==
    /\ pool[i].status = "queued"
    /\ Cardinality({j \in 1..Len(pool) : pool[j].status = "running"}) < PoolSize

\* all_done with the fault of going on at the first result
some_done == \E i \in 1..Len(pool) : pool[i].status = "done"

\* pool.map has every result: the with-block goes on to the merge loop
all_done == \A i \in 1..Len(pool) : pool[i].status = "done"

\* merge_results with the fault of leaving the test of line 103 out
RECURSIVE merge_every_result(_, _)
merge_every_result(slots, i) ==
    IF i > Len(slots) THEN <<>>
    ELSE <<[name |-> slots[i].name, info |-> slots[i].result]>>
         \o merge_every_result(slots, i + 1)

\* the for loop of lines 102-104 over module_results, in the order of the items
RECURSIVE merge_results(_, _)
merge_results(slots, i) ==
    IF i > Len(slots) THEN <<>>
    ELSE (IF slots[i].result.ok
          THEN <<[name |-> slots[i].name, info |-> slots[i].result]>>
          ELSE <<>>) \o merge_results(slots, i + 1)

(***************************************************************************)
(* compare_modules, print_differences                                      *)
(***************************************************************************)
\* puppetfile_modules[module_name]
Lookup(modules, module_name) ==
    modules[CHOOSE i \in 1..Len(modules) : modules[i].name = module_name]

HasKey(modules, module_name) == \E i \in 1..Len(modules) : modules[i].name = module_name

compare_modules(modules, forge) ==
    [i \in 1..Len(forge) |->
        LET puppet_tag == Lookup(modules, forge[i].name).tag
            forge_version == forge[i].info.current_version
        IN  IF puppet_tag # forge_version
            THEN [module |-> forge[i].name,
                  puppet_tag |-> puppet_tag,
                  forge_version |-> forge_version,
                  forge_dependencies |-> forge[i].info.dependencies,
                  module_endpoint_version |-> forge[i].info.module_endpoint_version]
            ELSE [module |-> forge[i].name,
                  puppet_tag |-> puppet_tag,
                  forge_version |-> forge_version,
                  forge_dependencies |-> forge[i].info.dependencies,
                  module_endpoint_version |-> forge[i].info.module_endpoint_version]]

\* lines 195-205: the dependency is in the Puppetfile at puppet_dep_version
found_line(dep_name, dep_version, puppet_dep_version, satisfied) ==
    [name |-> dep_name, requirement |-> dep_version,
     status |-> IF satisfied THEN "OK" ELSE "Invalid",
     provided |-> puppet_dep_version]

line_for(api, modules, dep_name, dep_version) ==
    IF ~HasKey(modules, dep_name)
    THEN [name |-> dep_name, requirement |-> dep_version, status |-> "Not Found",
          provided |-> <<>>]
    ELSE found_line(dep_name, dep_version, Lookup(modules, dep_name).tag,
                    compare_versions(api, Lookup(modules, dep_name).tag, dep_version))

\* dependency_line with the fault of leaving the replace of line 183 out
dependency_line_as_spelled(api, modules, dep) ==
    line_for(api, modules, dep.name, dep.version_requirement)

\* the body of the loop over forge_deps (lines 182-205): the line appended to
\* dependency_lines, as data
dependency_line(api, modules, dep) ==
    line_for(api, modules, ReplaceChar(dep.name, "/", "-"), dep.version_requirement)

\* module_has_errors, has_errors: set on a Not Found or an Invalid line only
line_is_error(l) == l.status \in {"Not Found", "Invalid"}

any_error(lines) == \E k \in 1..Len(lines) : line_is_error(lines[k])

\* whether the module's block is printed (line 207)
is_printed(module_has_errors, outdated, all) == module_has_errors \/ outdated \/ all

diagnostic_of(diff, lines, all) ==
    [module |-> diff.module,
     puppet_tag |-> diff.puppet_tag,
     forge_version |-> diff.module_endpoint_version,
     outdated |-> diff.puppet_tag # diff.module_endpoint_version,
     dependency_lines |-> lines,
     module_has_errors |-> any_error(lines),
     printed |-> is_printed(any_error(lines),
                            diff.puppet_tag # diff.module_endpoint_version, all)]

\* one pass of the loop over module_differences (lines 170-218)
module_diagnostic(api, modules, diff, all) ==
    diagnostic_of(diff,
                  [k \in 1..Len(diff.forge_dependencies) |->
                      dependency_line(api, modules, diff.forge_dependencies[k])],
                  all)

\* errors_of with the fault of counting an outdated module as an error
errors_of_or_outdated(ds) ==
    \E i \in 1..Len(ds) : ds[i].module_has_errors \/ ds[i].outdated

\* has_errors as print_differences returns it
errors_of(ds) == \E i \in 1..Len(ds) : ds[i].module_has_errors

print_differences(api, differences, modules, all) ==
    [i \in 1..Len(differences) |-> module_diagnostic(api, modules, differences[i], all)]

\* exit_status with the fault of leaving "and not args.print_all" out
exit_status_on_errors(errors, all) == IF errors THEN 1 ELSE 0

\* the exit status main chooses (lines 233-238)
exit_status(errors, all) == IF errors /\ ~all THEN 1 ELSE 0

(***************************************************************************)
(* main                                                                    *)
(***************************************************************************)
\* what `git diff --name-only HEAD Puppetfile` may print (lines 222-223)
ChangedFiles == {<<>>, <<"Puppetfile">>}

\* x in a list
InList(x, l) == \E i \in 1..Len(l) : l[i] = x

\* lines 222-225 and 239-241: the change gate
Gate ==
    /\ pc = "start"
    /\ \E changed_files \in ChangedFiles :
       IF InList("Puppetfile", changed_files) \/ print_all
       THEN /\ pc' = "parse"
            /\ UNCHANGED <<messages, exit_code>>
       ELSE /\ pc' = "done"
            /\ messages' = Append(messages, "No changes to Puppetfile, skipping dependency check.")
            /\ exit_code' = 0
    /\ UNCHANGED <<puppetfile, print_all, semver_api, puppetfile_modules,
                   invalid_tags, pool, requests, overtaken, skipped, forge_modules,
                   module_differences, diagnostics, has_errors, eval>>

ParseTo(r) ==
    /\ puppetfile_modules' = r.module_data
    /\ invalid_tags' = r.invalid_tags
    /\ messages' = messages \o r.printed
    /\ pool' = [i \in 1..Len(r.module_data) |->
                   [status |-> "queued", name |-> r.module_data[i].name, attempts |-> 0,
                    result |-> None]]

\* line 227, and the items of line 100 handed to pool.map
Parse ==
    /\ pc = "parse"
    /\ ParseTo(parse_r10k_puppetfile(puppetfile))
    /\ pc' = "fetch"
    /\ UNCHANGED <<puppetfile, print_all, semver_api, requests, overtaken,
                   skipped, forge_modules, module_differences, diagnostics, has_errors,
                   exit_code, eval>>

\* a worker process takes item i
StartFetch(i) ==
    /\ pc = "fetch"
    /\ can_start(i)
    /\ pool' = [pool EXCEPT ![i].status = "running", ![i].attempts = @ + 1]
    /\ UNCHANGED <<pc, puppetfile, print_all, semver_api, puppetfile_modules,
                   invalid_tags, requests, overtaken, skipped, forge_modules,
                   module_differences, diagnostics, has_errors, messages, exit_code,
                   eval>>

FinishTo(i, r) ==
    /\ pool' = [pool EXCEPT ![i].status = "done", ![i].result = r.result]
    /\ skipped' = IF r.skip THEN skipped \cup {puppetfile_modules[i].name} ELSE skipped

\* the worker runs fetch_module_data on item i and hands back its result
FinishFetch(i) ==
    /\ pc = "fetch"
    /\ pool[i].status = "running"
    /\ \E rel \in ReleaseResponses(puppetfile_modules[i].tag), mod \in ModuleResponses :
         FinishTo(i, fetch_module_data(puppetfile_modules[i], rel, mod))
    /\ requests' = requests \cup fetch_requests(puppetfile_modules[i])
    /\ overtaken' = (overtaken \/ \E j \in 1..(i - 1) : pool[j].status # "done")
    /\ UNCHANGED <<pc, puppetfile, print_all, semver_api, puppetfile_modules,
                   invalid_tags, forge_modules, module_differences, diagnostics,
                   has_errors, messages, exit_code, eval>>

\* pool.map returns; lines 102-105 build results
Merge ==
    /\ pc = "fetch"
    /\ all_done
    /\ forge_modules' = merge_results(pool, 1)
    /\ pc' = "compare"
    /\ UNCHANGED <<puppetfile, print_all, semver_api, puppetfile_modules,
                   invalid_tags, pool, requests, overtaken, skipped, module_differences,
                   diagnostics, has_errors, messages, exit_code, eval>>

\* line 229
CompareModules ==
    /\ pc = "compare"
    /\ module_differences' = compare_modules(puppetfile_modules, forge_modules)
    /\ pc' = "print"
    /\ UNCHANGED <<puppetfile, print_all, semver_api, puppetfile_modules,
                   invalid_tags, pool, requests, overtaken, skipped, forge_modules,
                   diagnostics, has_errors, messages, exit_code, eval>>

PrintTo(ds) ==
    /\ diagnostics' = ds
    /\ has_errors' = errors_of(ds)

\* line 231
PrintDifferences ==
    /\ pc = "print"
    /\ PrintTo(print_differences(semver_api, module_differences, puppetfile_modules, print_all))
    /\ pc' = "exit"
    /\ UNCHANGED <<puppetfile, print_all, semver_api, puppetfile_modules,
                   invalid_tags, pool, requests, overtaken, skipped, forge_modules,
                   module_differences, messages, exit_code, eval>>

\* lines 233-238
Exit ==
    /\ pc = "exit"
    /\ exit_code' = exit_status(has_errors, print_all)
    /\ messages' = Append(messages,
                          IF exit_status(has_errors, print_all) = 1
                          THEN "Puppetfile has dependency errors. Please correct them."
                          ELSE "Puppetfile dependencies are valid.")
    /\ pc' = "done"
    /\ UNCHANGED <<puppetfile, print_all, semver_api, puppetfile_modules,
                   invalid_tags, pool, requests, overtaken, skipped, forge_modules,
                   module_differences, diagnostics, has_errors, eval>>

Next ==
    \/ Gate
    \/ Parse
    \/ \E i \in 1..Len(pool) : StartFetch(i)
    \/ \E i \in 1..Len(pool) : FinishFetch(i)
    \/ Merge
    \/ CompareModules
    \/ PrintDifferences
    \/ Exit

Spec == Init /\ [][Next]_vars

(***************************************************************************)
(* compare_versions on its own: one call on a drawn version and            *)
(* requirement                                                             *)
(***************************************************************************)
EvalVersions ==
    {V_0_9_0, V_1_0_0, V_1_9_0, V_2_0_0, V_2_1_0, V_1_0_0_rc1, V_1_0_0_rc2, V_10_0_0}

EvalRequirements ==
    {Req_ge_1_0_0, Req_ge_2_0_0, Req_range_1_3, Req_range_sp, Req_gt_1_0_0, Req_le_1_9_0,
     Req_lt_2_0_0, Req_eq_1_0_0, Req_ge_10_0_0, Req_eq_rc1, Req_ge_rc1, Req_lt_rc2,
     Req_not_a_version, Req_eqeq_2_0_0, Req_eqgt_2_0_0, Req_ltgt_1_0_0, Req_ge_1_0,
     Req_ge_x, Req_caret, Req_1_x, Req_empty, Req_bare_1_0_0}

EvalInit ==
    /\ pc = "off"
    /\ puppetfile = [status |-> "missing", lines |-> <<>>, upto |-> 0]
    /\ print_all = FALSE
    /\ semver_api \in {2, 3}
    /\ puppetfile_modules = <<>>
    /\ invalid_tags = <<>>
    /\ pool = <<>>
    /\ requests = {}
    /\ overtaken = FALSE
    /\ skipped = {}
    /\ forge_modules = <<>>
    /\ module_differences = <<>>
    /\ diagnostics = <<>>
    /\ has_errors = FALSE
    /\ messages = <<>>
    /\ exit_code = -1
    /\ \E v \in EvalVersions, r \in EvalRequirements :
         eval = [pc |-> "call", version |-> v, requirement |-> r, result |-> FALSE]

\* lines 131-165: the call returns
Evaluate ==
    /\ eval.pc = "call"
    /\ eval' = [eval EXCEPT !.pc = "returned",
                            !.result = compare_versions(semver_api, eval.version,
                                                        eval.requirement)]
    /\ UNCHANGED <<pc, puppetfile, print_all, semver_api, puppetfile_modules,
                   invalid_tags, pool, requests, overtaken, skipped, forge_modules,
                   module_differences, diagnostics, has_errors, messages, exit_code>>

EvalNext == Evaluate

EvalSpec == EvalInit /\ [][EvalNext]_vars

(***************************************************************************)
(* Properties                                                              *)
(***************************************************************************)
LastMessage == IF messages = <<>> THEN "" ELSE messages[Len(messages)]

\* the run passed the change gate and reached sys.exit through lines 226-238
RanToExit ==
    pc = "done" /\ LastMessage # "No changes to Puppetfile, skipping dependency check."

\* print_differences has returned
Reported == pc = "exit" \/ RanToExit

\* get_current_release_and_metadata has returned
Merged == pc \in {"compare", "print", "exit"} \/ RanToExit

\* parse_r10k_puppetfile has returned
Parsed == pc = "fetch" \/ Merged

Names(q) == {q[i].name : i \in 1..Len(q)}

Modules(q) == {q[i].module : i \in 1..Len(q)}

Unsatisfied(d) == \E k \in 1..Len(d.dependency_lines) : d.dependency_lines[k].status # "OK"

SomeUnsatisfied == \E i \in 1..Len(diagnostics) : Unsatisfied(diagnostics[i])

SomeOutdated ==
    \E i \in 1..Len(diagnostics) : diagnostics[i].puppet_tag # diagnostics[i].forge_version

(* C1, as stated: a run that assembles the report exits non-zero if and only
   if some reported module is outdated or has a dependency finding that is
   not Satisfied. *)
C1_FailIffOutdatedOrUnsatisfied ==
    RanToExit => ((exit_code # 0) <=> (SomeOutdated \/ SomeUnsatisfied))

(* C1, amended: the verdict has_errors is fail if and only if some dependency
   finding of a reported module is not Satisfied (an outdated module is
   listed, and alone leaves the verdict a pass), and the exit status is
   non-zero if and only if the verdict is fail and print-all is off. *)
C1_FailIffUnsatisfied ==
    RanToExit =>
        /\ has_errors <=> SomeUnsatisfied
        /\ (exit_code # 0) <=> (SomeUnsatisfied /\ ~print_all)
        /\ \A i \in 1..Len(diagnostics) :
             diagnostics[i].puppet_tag # diagnostics[i].forge_version => diagnostics[i].printed

\* a run without print-all where a module is outdated, every finding is
\* Satisfied, and the exit status is 0
C1_StaleAlonePasses ==
    /\ RanToExit
    /\ ~print_all
    /\ has_errors = FALSE
    /\ SomeOutdated
    /\ ~SomeUnsatisfied
    /\ \E i \in 1..Len(diagnostics) : Len(diagnostics[i].dependency_lines) > 0
    /\ exit_code = 0

(* C2: when the Puppetfile cannot be read the run ends with a non-zero status
   and never with "Puppetfile dependencies are valid." *)
C2_UnreadableIsTerminal ==
    (RanToExit /\ puppetfile.status # "ok") =>
        (exit_code # 0 /\ LastMessage # "Puppetfile dependencies are valid.")

\* the operators the evaluator implements
KnownOperators == {<<">", "=">>, <<"<", "=">>, <<">">>, <<"<">>, <<"=">>}

\* a requirement is malformed: a clause with an operator outside the five, a
\* clause whose version is no semantic version, or no clause at all and text
\* that is no comparison against a semantic version
Malformed(req) ==
    \/ \E k \in 1..Len(findall_clauses(req)) :
         \/ findall_clauses(req)[k].operator \notin KnownOperators
         \/ ~IsValidSemver(findall_clauses(req)[k].version)
    \/ /\ findall_clauses(req) = <<>>
       /\ ~semver_match(3, V_1_0_0, req).ok

(* C3: compare_versions returns False for every malformed requirement: none
   is reported as satisfied. *)
C3_MalformedIsUnsatisfied ==
    (eval.pc = "returned" /\ Malformed(eval.requirement)) => eval.result = FALSE

\* the characters a version operand is made of
OperandChars == IdentChars \cup {".", "+"}

\* the clauses of a requirement written as <operator><version> ..., the
\* operator read longest first and the version taken whole, up to the next
\* blank or operator; ok is FALSE when something else is found
RECURSIVE ClausesOf(_)
ClausesOf(s) ==
    IF s = <<>> THEN [ok |-> TRUE, clauses |-> <<>>]
    ELSE IF s[1] \in SpaceChars THEN ClausesOf(Tail(s))
    ELSE LET o == IF Take(s, 2) \in KnownOperators THEN 2
                  ELSE IF Take(s, 1) \in KnownOperators THEN 1 ELSE 0
             w == RunLen(Drop(s, o), SpaceChars)
             d == RunLen(Drop(s, o + w), OperandChars)
             rest == ClausesOf(Drop(s, o + w + d))
         IN  IF o = 0 \/ d = 0 THEN [ok |-> FALSE, clauses |-> <<>>]
             ELSE [ok |-> rest.ok /\ IsValidSemver(SubSeq(s, o + w + 1, o + w + d)),
                   clauses |-> <<[operator |-> Take(s, o),
                                  version |-> SubSeq(s, o + w + 1, o + w + d)]>>
                               \o rest.clauses]

IsClauseList(req) == ClausesOf(req).ok /\ ClausesOf(req).clauses # <<>>

ClauseHolds(v, c) ==
    LET r == semver_compare(v, c.version).val
    IN  CASE c.operator = <<">", "=">> -> r >= 0
          [] c.operator = <<"<", "=">> -> r <= 0
          [] c.operator = <<">">> -> r > 0
          [] c.operator = <<"<">> -> r < 0
          [] c.operator = <<"=">> -> r = 0

AllClausesHold(v, req) ==
    \A k \in 1..Len(ClausesOf(req).clauses) : ClauseHolds(v, ClausesOf(req).clauses[k])

(* C4: for a valid version and a requirement made of clauses, compare_versions
   is the conjunction of the semantic-version comparisons of the version
   against each clause's whole version operand, prerelease included. *)
C4_ConjunctionOfClauses ==
    (eval.pc = "returned" /\ IsValidSemver(eval.version) /\ IsClauseList(eval.requirement))
        => (eval.result <=> AllClausesHold(eval.version, eval.requirement))

\* the lines of the Puppetfile the parser got to read
ReadLines == SubSeq(puppetfile.lines, 1, puppetfile.upto)

Declares(i) == ReadLines[i].match

\* the tags the input lines carry, after the leading v is stripped, that are
\* semantic versions
ValidTags == {t \in {strip_v(l.tag) : l \in LineChoices} : IsValidSemver(t)}

ValidTag(i) == strip_v(ReadLines[i].tag) \in ValidTags

CountIn(q, x) == Cardinality({k \in 1..Len(q) : q[k] = x})

\* which of the lines read declare a module with a valid tag
ValidLines == [i \in 1..Len(ReadLines) |-> Declares(i) /\ ValidTag(i)]

\* the first n lines that declare a module with an invalid tag, as (name, tag)
\* pairs in line order
RECURSIVE RejectedOf(_, _)
RejectedOf(n, valid) ==
    IF n = 0 THEN <<>>
    ELSE RejectedOf(n - 1, valid) \o
         (IF Declares(n) /\ ~valid[n]
          THEN <<[name |-> ReadLines[n].name, tag |-> strip_v(ReadLines[n].tag)]>>
          ELSE <<>>)

\* the mapping holds exactly the last valid declaration of every name
LastValidWins(valid) ==
    /\ invalid_tags = RejectedOf(Len(ReadLines), valid)
    /\ \A k, l \in 1..Len(puppetfile_modules) :
         puppetfile_modules[k].name = puppetfile_modules[l].name => k = l
    /\ \A k \in 1..Len(puppetfile_modules) :
         \E i \in 1..Len(ReadLines) :
             ReadLines[i].name = puppetfile_modules[k].name /\ valid[i]
    /\ \A i \in 1..Len(ReadLines) :
         (valid[i] /\ \A j \in (i + 1)..Len(ReadLines) :
                         ~(ReadLines[j].name = ReadLines[i].name /\ valid[j]))
             => /\ HasKey(puppetfile_modules, ReadLines[i].name)
                /\ Lookup(puppetfile_modules, ReadLines[i].name) =
                       [name |-> ReadLines[i].name, tag |-> strip_v(ReadLines[i].tag),
                        git_url |-> ReadLines[i].git_url]

TagsAreValid == \A k \in 1..Len(puppetfile_modules) : puppetfile_modules[k].tag \in ValidTags

(* C5, as stated: every declaration with an invalid tag is out of the mapping
   and once in invalid_tags, every mapped tag is valid, and a name declared
   on several lines is mapped to its last declaration. *)
C5_LastDeclarationWins ==
    Parsed =>
        /\ TagsAreValid
        /\ \A i \in 1..Len(ReadLines) :
             (Declares(i) /\ ~ValidTag(i)) =>
                 CountIn(invalid_tags,
                         [name |-> ReadLines[i].name, tag |-> strip_v(ReadLines[i].tag)]) = 1
        /\ \A i \in 1..Len(ReadLines) :
             (/\ Declares(i)
              /\ \E h \in 1..(i - 1) :
                    Declares(h) /\ ReadLines[h].name = ReadLines[i].name
              /\ \A j \in (i + 1)..Len(ReadLines) :
                    ~(Declares(j) /\ ReadLines[j].name = ReadLines[i].name))
                 => /\ HasKey(puppetfile_modules, ReadLines[i].name)
                    /\ Lookup(puppetfile_modules, ReadLines[i].name).tag =
                           strip_v(ReadLines[i].tag)

(* C5, amended: every mapped tag is valid; every line with an invalid tag adds
   one entry to invalid_tags, in line order (a pair declared on k lines is
   there k times); a name is mapped if and only if some line declares it with
   a valid tag, and is mapped to the last such line. *)
C5_LastValidDeclarationWins ==
    Parsed => (TagsAreValid /\ LastValidWins(ValidLines))

\* a name declared with a valid tag and then again with an invalid one: the
\* mapping keeps the earlier declaration
C5_InvalidAfterValid ==
    /\ Parsed
    /\ \E i, j \in 1..Len(ReadLines) :
         /\ i < j
         /\ Declares(i) /\ ValidTag(i)
         /\ Declares(j) /\ ~ValidTag(j)
         /\ ReadLines[i].name = ReadLines[j].name
         /\ HasKey(puppetfile_modules, ReadLines[i].name)
         /\ invalid_tags # <<>>

\* the finding the claim gives for dependency dep, compared with line l
ExpectedFinding(dep, l) ==
    LET n == ReplaceChar(dep.name, "/", "-")
    IN  /\ l.name = n
        /\ l.requirement = dep.version_requirement
        /\ IF \A k \in 1..Len(puppetfile_modules) : puppetfile_modules[k].name # n
           THEN l.status = "Not Found"
           ELSE LET pinned == Lookup(puppetfile_modules, n).tag
                IN  IF compare_versions(semver_api, pinned, dep.version_requirement)
                    THEN l.status = "OK"
                    ELSE l.status = "Invalid" /\ l.provided = pinned

(* C6: every dependency the Forge declares for a reported module gets exactly
   one finding, in the declared order: Not Found when the normalized name is
   not in the Puppetfile, otherwise OK or Invalid with the pinned version as
   the evaluator decides; a finding that is not OK makes the verdict fail. *)
C6_OneFindingPerDependency ==
    Reported =>
        /\ Len(diagnostics) = Len(module_differences)
        /\ \A i \in 1..Len(diagnostics) :
             /\ diagnostics[i].module = module_differences[i].module
             /\ Len(diagnostics[i].dependency_lines) =
                    Len(module_differences[i].forge_dependencies)
             /\ \A k \in 1..Len(diagnostics[i].dependency_lines) :
                  ExpectedFinding(module_differences[i].forge_dependencies[k],
                                  diagnostics[i].dependency_lines[k])
        /\ SomeUnsatisfied => has_errors

\* the scenario of the claim: b is pinned at 0.9.0 and required >=1.0.0, c is
\* required and not in the Puppetfile
C6_ViolatedAndNotFound ==
    /\ Reported
    /\ has_errors
    /\ \E i \in 1..Len(diagnostics) :
         /\ Len(diagnostics[i].dependency_lines) = 2
         /\ diagnostics[i].dependency_lines[1] =
                [name |-> NameB, requirement |-> Req_ge_1_0_0, status |-> "Invalid",
                 provided |-> V_0_9_0]
         /\ diagnostics[i].dependency_lines[2].status = "Not Found"

\* item i was sent to the Forge and its fetch failed
FetchFailed(i) ==
    /\ pool[i].status = "done"
    /\ StartsWith(puppetfile_modules[i].git_url, GITHUB_PREFIX)
    /\ ~pool[i].result.ok

FetchSucceeded(i) == pool[i].status = "done" /\ pool[i].result.ok

(* C7: a module whose fetch fails is fetched once, is printed as skipped, has
   no entry in the results and no diagnostic, and the verdict is that of the
   other modules, which are all reconciled. *)
C7_FailedFetchIsSkipped ==
    Parsed =>
        /\ \A i \in 1..Len(pool) : pool[i].attempts <= 1
        /\ \A i \in 1..Len(pool) : FetchFailed(i) => pool[i].name \in skipped
        /\ \A n \in skipped : \E i \in 1..Len(pool) : FetchFailed(i) /\ pool[i].name = n
        /\ Merged => /\ Names(forge_modules) \cap skipped = {}
                     /\ \A i \in 1..Len(pool) :
                          FetchSucceeded(i) => pool[i].name \in Names(forge_modules)
        /\ Reported => /\ Modules(diagnostics) \cap skipped = {}
                       /\ \A i \in 1..Len(pool) :
                            FetchSucceeded(i) => pool[i].name \in Modules(diagnostics)
                       /\ has_errors <=> SomeUnsatisfied

\* a finished run where one module was skipped and another was reconciled
C7_OneSkippedOneReconciled ==
    /\ RanToExit
    /\ skipped # {}
    /\ diagnostics # <<>>
    /\ \E i \in 1..Len(pool) : FetchFailed(i) /\ pool[i].attempts = 1

Untrusted(e) == ~StartsWith(e.git_url, GITHUB_PREFIX)

(* C8: for an entry whose git URL is not under https://github.com/ no GET is
   issued, no result, no diagnostic and no "Skipping" line exists, and the
   verdict is computed from the diagnostics of the other modules alone. *)
C8_UntrustedIsNeverFetched ==
    Parsed =>
        \A k \in 1..Len(puppetfile_modules) :
            Untrusted(puppetfile_modules[k]) =>
                /\ \A r \in requests :
                     /\ r.key # forge_name(puppetfile_modules[k].name)
                     /\ r.key # release_slug(puppetfile_modules[k].name,
                                             puppetfile_modules[k].tag)
                /\ puppetfile_modules[k].name \notin skipped
                /\ puppetfile_modules[k].name \notin Names(forge_modules)
                /\ puppetfile_modules[k].name \notin Modules(diagnostics)
                /\ ~pool[k].result.ok
                /\ Reported =>
                     (has_errors <=>
                        \E i \in 1..Len(diagnostics) :
                            /\ diagnostics[i].module # puppetfile_modules[k].name
                            /\ Unsatisfied(diagnostics[i]))

\* a finished run with an untrusted entry whose worker has returned, beside
\* a module that was fetched and reported
C8_UntrustedBesideReported ==
    /\ RanToExit
    /\ diagnostics # <<>>
    /\ requests # {}
    /\ \E k \in 1..Len(puppetfile_modules) :
         Untrusted(puppetfile_modules[k]) /\ pool[k].status = "done"

(* C9, as stated: with print-all every fetched module is listed and the exit
   status is non-zero exactly when a module is outdated or a finding is Not
   Found or Invalid. *)
C9_PrintAllKeepsExitRule ==
    (RanToExit /\ print_all) =>
        /\ \A i \in 1..Len(diagnostics) : diagnostics[i].printed
        /\ (exit_code # 0) <=> (SomeOutdated \/ SomeUnsatisfied)

(* C9, amended: with print-all every fetched module is listed and has_errors
   is fail exactly when a finding is Not Found or Invalid, as without the
   mode, but the exit status is 0 whatever the verdict. *)
C9_PrintAllExitsZero ==
    (RanToExit /\ print_all) =>
        /\ \A i \in 1..Len(pool) :
             FetchSucceeded(i) =>
                 \E d \in 1..Len(diagnostics) :
                     diagnostics[d].module = pool[i].name /\ diagnostics[d].printed
        /\ has_errors <=> SomeUnsatisfied
        /\ exit_code = 0
        /\ LastMessage = "Puppetfile dependencies are valid."

\* a print-all run that found a dependency error and exited 0
C9_PrintAllWithErrors ==
    /\ RanToExit
    /\ print_all
    /\ has_errors
    /\ exit_code = 0

\* the place of a module in the Puppetfile mapping
Position(n) == CHOOSE i \in 1..Len(puppetfile_modules) : puppetfile_modules[i].name = n

(* C10: nothing is merged or reported while a worker is still busy; after the
   merge the results hold one slot per successfully fetched entry, each with
   that entry's own fetched data, in the order of the Puppetfile mapping
   whatever the order the workers completed in, and the diagnostics follow
   that order. *)
C10_MergeAfterAllInOrder ==
    /\ (pc \in {"start", "parse", "fetch"}) =>
           (forge_modules = <<>> /\ module_differences = <<>> /\ diagnostics = <<>>)
    /\ Merged =>
        /\ \A i \in 1..Len(pool) : pool[i].status = "done"
        /\ Len(forge_modules) = Cardinality({i \in 1..Len(pool) : pool[i].result.ok})
        /\ \A k \in 1..Len(forge_modules) :
             /\ forge_modules[k].info = pool[Position(forge_modules[k].name)].result
             /\ forge_modules[k].info.ok
             /\ forge_modules[k].info.tag =
                    puppetfile_modules[Position(forge_modules[k].name)].tag
        /\ \A k, l \in 1..Len(forge_modules) :
             k < l => Position(forge_modules[k].name) < Position(forge_modules[l].name)
    /\ Reported =>
        /\ Len(diagnostics) = Len(forge_modules)
        /\ \A k \in 1..Len(diagnostics) : diagnostics[k].module = forge_modules[k].name

\* two modules were fetched, the second completed first, and the results are
\* merged
C10_CompletedOutOfOrder ==
    /\ Merged
    /\ Len(forge_modules) = 2
    /\ overtaken
    /\ Len(diagnostics) = 2

====
